---- MODULE Spec2Model ----
(***************************************************************************)
(* The GraphRAG page controller (src/unnamed/part_001, the enhanced        *)
(* variant of src/index.js) as a state machine.                            *)
(*                                                                         *)
(* JavaScript runs each handler to completion up to its next await on a    *)
(* pending promise (a fetch, a file read, a timer).  One action of this    *)
(* model is one such segment.  An alert() blocks the page: the segment     *)
(* stops at the alert, and only the handler that raised it goes on.        *)
(* The backend is the environment: every response is a choice.             *)
(***************************************************************************)
EXTENDS Integers, Sequences, FiniteSets, Bags, TLC

\* ------------------------------------------------------------------ bounds
MaxTasks == 2      \* handlers in flight at the same time
MaxDocs == 2       \* length of a documents array the backend returns
MaxFiles == 2      \* files in one selection
MaxTextLen == 1    \* tokens in a text the user types or a file holds
MaxPhases == 2     \* phases in a review response
MaxLongPhases == 7 \* phases in a long review response
MaxPhaseOps == 2   \* review generations with long responses
MaxChat == 2       \* questions accepted in one page load
MaxLog == 6        \* entries kept in the review progress log
MaxRuns == 2       \* runs of the ingestion script
MaxLiveOps == 2    \* handlers the user starts where progress is fair
MaxChatOps == 4    \* handlers the user starts next to the chat
MaxOps == 2        \* handlers the user starts in one page load

\* ------------------------------------------------------------------ texts
\* A text is a sequence of tokens; " " and "\n" are white space.
WhiteSpace == {" ", "\n"}

RECURSIVE TrimLeft(_)
TrimLeft(s) ==
    IF s # <<>> /\ Head(s) \in WhiteSpace THEN TrimLeft(Tail(s)) ELSE s

RECURSIVE TrimRight(_)
TrimRight(s) ==
    IF s # <<>> /\ s[Len(s)] \in WhiteSpace
    THEN TrimRight(SubSeq(s, 1, Len(s) - 1)) ELSE s

\* Mutant: the text is used as typed.
TrimNone(s) == s

\* String.prototype.trim
Trim(s) == TrimRight(TrimLeft(s))

\* text.replace(/\n/g, '<br>')
NlToBr(s) == [i \in DOMAIN s |-> IF s[i] = "\n" THEN "<br>" ELSE s[i]]

\* text.replace(/<br>/g, '\n')
BrToNl(s) == [i \in DOMAIN s |-> IF s[i] = "<br>" THEN "\n" ELSE s[i]]

RECURSIVE SeqsUpTo(_, _)
SeqsUpTo(S, n) ==
    IF n = 0 THEN {<<>>}
    ELSE LET shorter == SeqsUpTo(S, n - 1)
         IN  shorter \cup {Append(s, x) : s \in shorter, x \in S}

\* What a user can type, and what a text file can hold.
UserTexts == SeqsUpTo({" ", "a"}, MaxTextLen)

\* ------------------------------------------------------------------ backend
API_BASE == "/api"

\* Mutant: the base path is left out of the URL.
apiCallNoBase(endpoint, method, data) ==
    [method |-> method, url |-> endpoint, body |-> data]

\* fetch(`${API_BASE}${endpoint}`, {method, body})
apiCall(endpoint, method, data) ==
    [method |-> method, url |-> API_BASE \o endpoint, body |-> data]

DocNames == {"a.txt", "b.pdf"}
Doc(n) == [filename |-> n, chunks |-> 1]
DocLists == SeqsUpTo({Doc(n) : n \in DocNames}, MaxDocs)

\* A response to GET /api/documents: failed, or a JSON object with or
\* without a documents field.
DocsResponses ==
    {[ok |-> FALSE, has |-> FALSE, docs |-> <<>>],
     [ok |-> TRUE, has |-> FALSE, docs |-> <<>>]}
    \cup {[ok |-> TRUE, has |-> TRUE, docs |-> d] : d \in DocLists}

\* final_review of a review response (<<>>: absent or empty).
ReviewTexts == {<<>>, <<"D1">>, <<"D2", "\n", "x">>}
\* refined_section of a refinement response.
RefinedTexts == {<<"R1", "\n", "y">>}
\* answer of a query response.
AnswerTexts == {<<"A1">>}

Files ==
    {[name |-> "p.pdf", type |-> "application/pdf"],
     [name |-> "w.DOCX", type |-> ""],
     [name |-> "t.txt", type |-> "text/plain"]}

\* file.name.split('.').pop().toLowerCase()
fileExtension(name) ==
    CASE name = "p.pdf" -> "pdf"
      [] name = "w.DOCX" -> "docx"
      [] name = "t.txt" -> "txt"
      [] OTHER -> name

\* A file dialog selects distinct files.
Selections ==
    {s \in SeqsUpTo(Files, MaxFiles) :
        s # <<>> /\ \A i, j \in DOMAIN s : i # j => s[i] # s[j]}

\* ------------------------------------------------------------------ state
Controls ==
    {"processButton", "fileInput", "generateReviewButton", "analyzeTextButton",
     "similarityCheckButton", "questionInput", "chatButton"}

Sections ==
    {"knowledgeBaseContainer", "literatureReviewSection", "qaSection",
     "writingAssistantSection", "reviewGenerationProgress",
     "sectionRefinementControls"}

VARIABLES
    isLoading,            \* let isLoading
    documents,            \* let documents
    currentFileName,      \* let currentFileName
    draftHistory,         \* let draftHistory
    loaderHidden,         \* loader.classList has 'hidden'
    disabled,             \* .disabled of each control
    hidden,               \* the sections whose classList has 'hidden'
    knowledgeList,        \* the cards in #knowledge-list
    articleInput,         \* articleInput.value
    fileInput,            \* the files selected in #file-input
    fileNameDisplay,      \* fileNameDisplay.textContent
    questionInput,        \* questionInput.value
    chat,                 \* the messages in #chat-container
    reviewProgressLog,    \* the entries of #review-progress-log
    phaseIndicator,       \* #current-phase-text and #phase-progress-fill
    reviewDraftOutput,    \* reviewDraftOutput.innerHTML
    draftVersionControls, \* the buttons in #draft-version-controls
    writingEditor,        \* writingEditor.innerHTML
    suggestionsPanel,     \* suggestionsPanel.innerHTML
    refinementFeedback,   \* #refinement-feedback .value
    tasks,                \* the handlers suspended at an await or an alert
    modal,                \* the alert dialog on screen, "none" without one
    ended,                \* history: the operation the last step ended
    lastDocs,             \* history: the last successful documents response
    firstDraft,           \* history: the first draft pushed in this page load
    budget,               \* the handlers the user may still start, -1: any number
    addProgressLogDefined, \* the page defines the function addProgressLog
    docxFiles,            \* ingestion: the content of each .docx path, 0: no file
    tracking,             \* ingestion: the hash document_tracking.json records
    embeddings,           \* ingestion: how often each path was embedded
    runs,                 \* ingestion: the runs of the script so far
    forceReprocess,       \* ingestion: --force-reprocess of the latest run
    processed,            \* ingestion: the paths the latest run processed
    skipped               \* ingestion: the paths the latest run skipped

vars ==
    <<isLoading, documents, currentFileName, draftHistory, loaderHidden,
      disabled, hidden, knowledgeList, articleInput, fileInput,
      fileNameDisplay, questionInput, chat, reviewProgressLog, phaseIndicator,
      reviewDraftOutput, draftVersionControls, writingEditor, suggestionsPanel,
      refinementFeedback, tasks, modal, ended, lastDocs, firstDraft, budget,
      addProgressLogDefined, docxFiles, tracking, embeddings, runs,
      forceReprocess, processed, skipped>>
\* ------------------------------------------------------------------ history
\* The trace of one operation: what it sent, what failed, what it showed.
EvReq(r, item) == <<"req", r.method, r.url, item>>
EvFail(r, item) == <<"fail", r.method, r.url, item>>
EvAttempt(item) == <<"attempt", item>>
EvSelect(files) == <<"select">> \o [i \in DOMAIN files |-> files[i].name]
EvReadFail(item) == <<"readfail", item>>
EvAlert(kind, msg) == <<"alert", kind, msg>>
EvLog(kind, msg) == <<"log", kind, msg>>
EvInline(kind, msg) == <<"inline", kind, msg>>
EvThrow(msg) == <<"throw", msg>>
EvTopic(topic) == <<"topic">> \o topic

NoEnd == [op |-> "none", log |-> <<>>]
End(op, log) == [op |-> op, log |-> log]

NoButtons == <<>>

NoResponse == [ok |-> FALSE, has |-> FALSE, docs |-> <<>>]

\* A suspended handler: where it waits and the locals it still needs.
NewTask(op, pc, log) ==
    [op |-> op, pc |-> pc, log |-> log, files |-> <<>>, i |-> 0,
     name |-> "", text |-> <<>>, phases |-> 0, k |-> 0, hasProcess |-> FALSE]

AlertPcs ==
    {"alertSuccess", "alertError", "alertContinue", "alertResult"}

Free == modal = "none"
CanStart == Free /\ BagCardinality(tasks) < MaxTasks
Waiting(op, pc) == {t \in BagToSet(tasks) : t.op = op /\ t.pc = pc}
Without(t) == tasks (-) SetToBag({t})
With(bag, t) == bag (+) SetToBag({t})
Visible(section) == section \notin hidden
\* One more handler is started by the user.
CountOperation ==
    /\ budget # 0
    /\ budget' = IF budget > 0 THEN budget - 1 ELSE budget
    /\ UNCHANGED <<addProgressLogDefined, docxFiles, tracking, embeddings,
                   runs, forceReprocess, processed, skipped>>

\* ------------------------------------------------------------------ helpers
\* setLoading: the .disabled it gives each control.
setLoadingDisabled(loading, article, docs) ==
    [c \in Controls |->
        CASE c = "processButton" -> loading \/ article = <<>>
          [] c \in {"generateReviewButton", "questionInput", "chatButton"} ->
                loading \/ Len(docs) = 0
          [] OTHER -> loading]

\* Mutant: the loader's class is toggled the wrong way round.
setLoadingToggleInverted(loading, article, docs) ==
    /\ isLoading' = loading
    /\ loaderHidden' = loading
    /\ disabled' = setLoadingDisabled(loading, article, docs)

\* setLoading(loading), called when the text area holds article and the
\* document list is docs.
setLoading(loading, article, docs) ==
    /\ isLoading' = loading
    /\ loaderHidden' = ~loading
    /\ disabled' = setLoadingDisabled(loading, article, docs)

\* Mutant: a failed reload empties the list.
loadDocumentsDocsReset(resp, docs) ==
    IF resp.ok /\ resp.has THEN resp.docs ELSE <<>>

\* loadDocuments: documents = result.documents || [], unchanged on failure.
loadDocumentsDocs(resp, docs) ==
    IF resp.ok THEN (IF resp.has THEN resp.docs ELSE <<>>) ELSE docs

\* renderDocuments: one card per document, in order.
Card(doc) == [h4 |-> doc.filename, chunks |-> doc.chunks]
renderDocuments(docs) == [i \in DOMAIN docs |-> Card(docs[i])]

loadDocumentsList(resp, list) ==
    IF resp.ok THEN renderDocuments(loadDocumentsDocs(resp, <<>>)) ELSE list

\* loadDocuments: "Enable sections if we have documents".
loadDocumentsDisabled(resp, dis) ==
    IF resp.ok /\ Len(loadDocumentsDocs(resp, <<>>)) > 0
    THEN [c \in Controls |->
            IF c \in {"questionInput", "chatButton", "generateReviewButton"}
            THEN FALSE ELSE dis[c]]
    ELSE dis

loadDocumentsHidden(resp, hid) ==
    IF resp.ok /\ Len(loadDocumentsDocs(resp, <<>>)) > 0
    THEN hid \ {"knowledgeBaseContainer", "literatureReviewSection", "qaSection"}
    ELSE hid

\* The part of loadDocuments after its await, but for the controls.
loadDocuments(resp) ==
    /\ documents' = loadDocumentsDocs(resp, documents)
    /\ knowledgeList' = loadDocumentsList(resp, knowledgeList)
    /\ hidden' = loadDocumentsHidden(resp, hidden)
    /\ lastDocs' = IF resp.ok THEN resp ELSE lastDocs

DocumentsReq == apiCall("/documents", "GET", <<>>)

\* Mutant: the list is fetched twice.
loadDocumentsStartTwice(log) ==
    Append(Append(log, EvReq(DocumentsReq, "")), EvReq(DocumentsReq, ""))

\* loadDocuments up to its await: one GET /api/documents is sent.
loadDocumentsStart(log) == Append(log, EvReq(DocumentsReq, ""))
\* What a failed GET /api/documents leaves in the operation's trace: the
\* catch of loadDocuments writes to the console only.
DocsOutcome(resp) ==
    IF resp.ok THEN <<>> ELSE <<EvFail(DocumentsReq, "")>>

\* The .docx paths the ingestion script finds, the contents a file may
\* have, and a path without a record in document_tracking.json.
Paths == {"a.docx", "b.docx"}
Contents == {1, 2}
NotTracked == "none"

\* ------------------------------------------------------------------ Init
\* The page once the script's top level has run: initializeApp has called
\* setLoading(true) and waits for GET /api/status.
InitWith(b) ==
    /\ isLoading = TRUE
    /\ documents = <<>>
    /\ currentFileName = ""
    /\ draftHistory = <<>>
    /\ loaderHidden = FALSE
    /\ disabled = setLoadingDisabled(TRUE, <<>>, <<>>)
    /\ hidden = Sections
    /\ knowledgeList = <<>>
    /\ articleInput = <<>>
    /\ fileInput = <<>>
    /\ fileNameDisplay = <<>>
    /\ questionInput = <<>>
    /\ chat = <<>>
    /\ reviewProgressLog = <<>>
    /\ phaseIndicator = [text |-> "", pct |-> 0]
    /\ reviewDraftOutput = <<>>
    /\ draftVersionControls = NoButtons
    /\ writingEditor = <<>>
    /\ suggestionsPanel = <<>>
    /\ refinementFeedback = <<>>
    /\ tasks = SetToBag({NewTask("initializeApp", "status",
                    <<EvReq(apiCall("/status", "GET", <<>>), "")>>)})
    /\ modal = "none"
    /\ ended = NoEnd
    /\ lastDocs = NoResponse
    /\ firstDraft = <<>>
    /\ budget = b
    \* This script calls addProgressLog and does not define it: the call
    \* throws a ReferenceError unless the page defines the function (as
    \* index.js does).
    /\ addProgressLogDefined \in BOOLEAN
    \* The ingestion script has not run: no file, nothing tracked.
    /\ docxFiles = [p \in Paths |-> 0]
    /\ tracking = [p \in Paths |-> NotTracked]
    /\ embeddings = [p \in Paths |-> 0]
    /\ runs = 0
    /\ forceReprocess = FALSE
    /\ processed = {}
    /\ skipped = {}

\* Variables by group, for UNCHANGED.
ingestVars ==
    <<docxFiles, tracking, embeddings, runs, forceReprocess, processed,
      skipped>>
globals == <<budget, addProgressLogDefined, ingestVars>>
loadingVars == <<isLoading, loaderHidden, disabled>>
docVars == <<documents, knowledgeList, lastDocs>>
fileVars == <<currentFileName, fileInput, fileNameDisplay>>
chatVars == <<questionInput, chat>>
reviewVars ==
    <<draftHistory, reviewProgressLog, phaseIndicator, reviewDraftOutput,
      draftVersionControls, firstDraft>>
assistVars == <<writingEditor, suggestionsPanel, refinementFeedback>>

\* ------------------------------------------------------------------ startup
\* checkSystemStatus after its await; initializeApp's finally when the
\* status is not 'ready' or the request failed.
StatusResponse ==
    \E t \in Waiting("initializeApp", "status") :
    \E ok \in BOOLEAN, ready \in BOOLEAN :
        /\ Free
        /\ IF ok /\ ready
           THEN /\ tasks' = With(Without(t),
                    [t EXCEPT !.pc = "documents",
                              !.log = loadDocumentsStart(@)])
                /\ ended' = NoEnd
                /\ UNCHANGED loadingVars
           ELSE /\ tasks' = Without(t)
                /\ ended' = End(t.op,
                    IF ok THEN t.log
                    ELSE Append(t.log,
                            EvFail(apiCall("/status", "GET", <<>>), "")))
                /\ setLoading(FALSE, articleInput, documents)
        /\ UNCHANGED <<globals, docVars, hidden, articleInput, fileVars, chatVars,
                       reviewVars, assistVars, modal>>

\* loadDocuments after its await, then checkSystemStatus returns true and
\* initializeApp's finally runs.
StatusDocumentsResponse ==
    \E t \in Waiting("initializeApp", "documents") :
    \E resp \in DocsResponses :
        /\ Free
        /\ loadDocuments(resp)
        /\ setLoading(FALSE, articleInput, documents')
        /\ tasks' = Without(t)
        /\ ended' = End(t.op, t.log \o DocsOutcome(resp))
        /\ UNCHANGED <<globals, articleInput, fileVars, chatVars, reviewVars,
                       assistVars, modal>>

\* ------------------------------------------------------------------ typing
TypeArticle ==
    \E x \in UserTexts :
        /\ Free
        /\ x # articleInput
        /\ articleInput' = x
        /\ ended' = NoEnd
        /\ UNCHANGED <<globals, loadingVars, docVars, hidden, fileVars, chatVars,
                       reviewVars, assistVars, tasks, modal>>
\* ------------------------------------------------------------------ alerts
\* The user closes an alert that ends its handler (an alert followed by
\* return).
DismissAlert ==
    /\ modal # "none"
    /\ \A t \in BagToSet(tasks) : t.pc \notin AlertPcs
    /\ modal' = "none"
    /\ ended' = NoEnd
    /\ UNCHANGED <<globals, loadingVars, docVars, hidden, articleInput, fileVars,
                   chatVars, reviewVars, assistVars, tasks>>

\* The user closes an alert after which only finally { setLoading(false) }
\* is left to run.
FinallyOps ==
    {"handleProcessArticle", "handleFileSelect", "handleSectionRefinement",
     "handleSimilarityCheck"}

FinallyAfterAlert ==
    \E t \in BagToSet(tasks) :
        /\ t.op \in FinallyOps
        /\ t.pc \in {"alertError", "alertResult"}
             \/ (t.op = "handleProcessArticle" /\ t.pc = "alertSuccess")
        /\ modal' = "none"
        /\ setLoading(FALSE, articleInput, documents)
        /\ tasks' = Without(t)
        /\ ended' = End(t.op, t.log)
        /\ UNCHANGED <<globals, docVars, hidden, articleInput, fileVars, chatVars,
                       reviewVars, assistVars>>

\* ------------------------------------------------------------------ process
AddDocumentReq(content, filename) ==
    apiCall("/add_document", "POST", <<"content", "filename">>)

\* currentFileName || `Manual_Entry_${Date.now()}.txt`
docNameOf(fileName) == IF fileName = "" THEN "Manual_Entry.txt" ELSE fileName

\* handleProcessArticle up to its first await.
ProcessClick ==
    /\ Free
    /\ ~disabled["processButton"]
    /\ IF Trim(articleInput) = <<>>
       THEN /\ modal' = "Please paste text into the text area or upload a file."
            /\ ended' = End("handleProcessArticle", <<EvAlert("error", modal')>>)
            /\ UNCHANGED <<loadingVars, tasks>>
       ELSE /\ CanStart
            /\ setLoading(TRUE, articleInput, documents)
            /\ LET docName == docNameOf(currentFileName)
                   req == AddDocumentReq(Trim(articleInput), docName)
               IN  tasks' = With(tasks,
                     [NewTask("handleProcessArticle", "add",
                              <<EvReq(req, docName)>>)
                        EXCEPT !.name = docName, !.text = Trim(articleInput)])
            /\ ended' = NoEnd
            /\ UNCHANGED modal
    /\ CountOperation
    /\ UNCHANGED <<docVars, hidden, articleInput, fileVars, chatVars,
                   reviewVars, assistVars>>

\* Mutant: the inputs are cleared whether add_document succeeded or not.
ProcessAddResponseClears ==
    \E t \in Waiting("handleProcessArticle", "add") :
    \E ok \in BOOLEAN :
        /\ Free
        /\ IF ok
           THEN /\ tasks' = With(Without(t),
                    [t EXCEPT !.pc = "documents",
                              !.log = loadDocumentsStart(@)])
                /\ UNCHANGED modal
           ELSE /\ modal' = "Error adding document"
                /\ tasks' = With(Without(t),
                    [t EXCEPT !.pc = "alertError",
                              !.log = @ \o
                                <<EvFail(AddDocumentReq(t.text, t.name), t.name),
                                  EvAlert("error", modal')>>])
        /\ articleInput' = <<>>
        /\ currentFileName' = ""
        /\ ended' = NoEnd
        /\ UNCHANGED <<globals, loadingVars, docVars, hidden, fileInput,
                       fileNameDisplay, chatVars, reviewVars, assistVars>>

\* The add_document response: loadDocuments starts, or the catch alerts.
ProcessAddResponse ==
    \E t \in Waiting("handleProcessArticle", "add") :
    \E ok \in BOOLEAN :
        /\ Free
        /\ IF ok
           THEN /\ tasks' = With(Without(t),
                    [t EXCEPT !.pc = "documents",
                              !.log = loadDocumentsStart(@)])
                /\ UNCHANGED modal
           ELSE /\ modal' = "Error adding document"
                /\ tasks' = With(Without(t),
                    [t EXCEPT !.pc = "alertError",
                              !.log = @ \o
                                <<EvFail(AddDocumentReq(t.text, t.name), t.name),
                                  EvAlert("error", modal')>>])
        /\ ended' = NoEnd
        /\ UNCHANGED <<globals, loadingVars, docVars, hidden, articleInput, fileVars,
                       chatVars, reviewVars, assistVars>>

\* loadDocuments returns: the inputs are cleared and the success alert is
\* shown; setLoading(false) waits for the alert to close.
ProcessDocumentsResponse ==
    \E t \in Waiting("handleProcessArticle", "documents") :
    \E resp \in DocsResponses :
        /\ Free
        /\ loadDocuments(resp)
        /\ disabled' = loadDocumentsDisabled(resp, disabled)
        /\ articleInput' = <<>>
        /\ fileInput' = <<>>
        /\ fileNameDisplay' = <<>>
        /\ currentFileName' = ""
        /\ modal' = "Successfully added to GraphRAG system!"
        /\ tasks' = With(Without(t),
              [t EXCEPT !.pc = "alertSuccess",
                        !.log = @ \o DocsOutcome(resp)
                                  \o <<EvAlert("info", modal')>>])
        /\ ended' = NoEnd
        /\ UNCHANGED <<globals, isLoading, loaderHidden, chatVars, reviewVars,
                       assistVars>>

\* ------------------------------------------------------------------ files
isBinary(file) ==
    \/ file.type = "application/pdf"
    \/ fileExtension(file.name) \in {"pdf", "docx", "doc"}

\* The multi-file branch looks at the extension only.
isBinaryInBatch(file) == fileExtension(file.name) \in {"pdf", "docx", "doc"}

\* handleFileSelect with no file: the early return.
FileSelectNone ==
    /\ Free
    /\ ~disabled["fileInput"]
    /\ fileInput' = <<>>
    /\ fileNameDisplay' = <<>>
    /\ currentFileName' = ""
    /\ ended' = End("handleFileSelect", <<>>)
    /\ CountOperation
    /\ UNCHANGED <<loadingVars, docVars, hidden, articleInput, chatVars,
                   reviewVars, assistVars, tasks, modal>>

\* handleFileSelect up to its first await, the read of the first file.
FileSelect ==
    \E sel \in Selections :
        /\ CanStart
        /\ ~disabled["fileInput"]
        /\ fileInput' = sel
        /\ IF Len(sel) = 1
           THEN /\ fileNameDisplay' = <<"Selected: ", sel[1].name>>
                /\ currentFileName' = sel[1].name
                /\ articleInput' = <<>>
           ELSE /\ fileNameDisplay' = <<"Processing files...", ToString(Len(sel))>>
                /\ UNCHANGED <<currentFileName, articleInput>>
        /\ setLoading(TRUE, articleInput', documents)
        /\ tasks' = With(tasks,
              [NewTask("handleFileSelect", "reading",
                       <<EvSelect(sel), EvAttempt(sel[1].name)>>)
                 EXCEPT !.files = sel, !.i = 1])
        /\ ended' = NoEnd
        /\ CountOperation
        /\ UNCHANGED <<docVars, hidden, chatVars, reviewVars, assistVars,
                       modal>>

\* The catch of the single-file branch, up to its alert.
SingleFileCatch(t, log) ==
    /\ fileNameDisplay' = <<"Error processing file.">>
    /\ currentFileName' = ""
    /\ modal' = "Error processing file"
    /\ tasks' = With(Without(t),
          [t EXCEPT !.pc = "alertError",
                    !.log = Append(log, EvAlert("error", modal'))])
    /\ ended' = NoEnd
    /\ UNCHANGED <<loadingVars, articleInput, fileInput>>

\* One file was selected and its read has finished.
SingleFileRead ==
    \E t \in Waiting("handleFileSelect", "reading") :
    \E ok \in BOOLEAN, fullText \in UserTexts :
        /\ Free
        /\ Len(t.files) = 1
        /\ LET file == t.files[1] IN
           IF ~ok
           THEN SingleFileCatch(t, Append(t.log, EvReadFail(file.name)))
           ELSE IF isBinary(file)
           THEN /\ tasks' = With(Without(t),
                    [t EXCEPT !.pc = "add",
                              !.log = Append(@,
                                EvReq(AddDocumentReq(<<>>, file.name), file.name))])
                /\ ended' = NoEnd
                /\ UNCHANGED <<loadingVars, articleInput, fileVars, modal>>
           ELSE /\ articleInput' = Trim(fullText)
                /\ setLoading(FALSE, articleInput', documents)
                /\ tasks' = Without(t)
                /\ ended' = End(t.op, t.log)
                /\ UNCHANGED <<fileVars, modal>>
        /\ UNCHANGED <<globals, docVars, hidden, chatVars, reviewVars, assistVars>>

\* One PDF or Word file: the add_document response.
SingleFileAddResponse ==
    \E t \in Waiting("handleFileSelect", "add") :
    \E ok \in BOOLEAN :
        /\ Free
        /\ Len(t.files) = 1
        /\ LET file == t.files[1] IN
           IF ok
           THEN /\ modal' = "uploaded successfully!"
                /\ tasks' = With(Without(t),
                    [t EXCEPT !.pc = "alertSuccess",
                              !.log = Append(@, EvAlert("info", modal'))])
                /\ ended' = NoEnd
                /\ UNCHANGED <<loadingVars, articleInput, fileVars>>
           ELSE SingleFileCatch(t, Append(t.log,
                    EvFail(AddDocumentReq(<<>>, file.name), file.name)))
        /\ UNCHANGED <<globals, docVars, hidden, chatVars, reviewVars, assistVars>>

\* The success alert is closed: loadDocuments starts.
SingleFileAlertClosed ==
    \E t \in Waiting("handleFileSelect", "alertSuccess") :
        /\ Len(t.files) = 1
        /\ modal' = "none"
        /\ tasks' = With(Without(t),
              [t EXCEPT !.pc = "documents",
                        !.log = loadDocumentsStart(@)])
        /\ ended' = NoEnd
        /\ UNCHANGED <<globals, loadingVars, docVars, hidden, articleInput, fileVars,
                       chatVars, reviewVars, assistVars>>

\* loadDocuments returns; the inputs are cleared, setLoading(false), return.
SingleFileDocumentsResponse ==
    \E t \in Waiting("handleFileSelect", "documents") :
    \E resp \in DocsResponses :
        /\ Free
        /\ Len(t.files) = 1
        /\ loadDocuments(resp)
        /\ fileInput' = <<>>
        /\ fileNameDisplay' = <<>>
        /\ currentFileName' = ""
        /\ setLoading(FALSE, articleInput, documents')
        /\ tasks' = Without(t)
        /\ ended' = End(t.op, t.log \o DocsOutcome(resp))
        /\ UNCHANGED <<globals, articleInput, chatVars, reviewVars, assistVars, modal>>

\* The for loop of the multi-file branch goes on: the next file, or
\* loadDocuments after the last one.
MultiFileNext(t, log) ==
    IF t.i < Len(t.files)
    THEN /\ setLoading(TRUE, articleInput, documents)
         /\ tasks' = With(Without(t),
              [t EXCEPT !.pc = "reading", !.i = @ + 1,
                        !.log = Append(log, EvAttempt(t.files[t.i + 1].name))])
    ELSE /\ UNCHANGED loadingVars
         /\ tasks' = With(Without(t),
              [t EXCEPT !.pc = "documents",
                        !.log = loadDocumentsStart(log)])

\* Mutant: the catch leaves the loop (a break).
MultiFileAbort(t, log) ==
    /\ UNCHANGED loadingVars
    /\ tasks' = With(Without(t),
          [t EXCEPT !.pc = "documents", !.log = loadDocumentsStart(log)])

\* Mutant: the catch tries the same file again.
MultiFileRetry(t, log) ==
    /\ setLoading(TRUE, articleInput, documents)
    /\ tasks' = With(Without(t),
          [t EXCEPT !.pc = "reading",
                    !.log = Append(log, EvAttempt(t.files[t.i].name))])

\* The catch inside the loop has returned from its alert: the loop goes on
\* with the next file.
MultiFileAfterCatch(t, log) == MultiFileNext(t, log)

\* The catch inside the loop, up to its alert.
MultiFileCatch(t, log) ==
    /\ modal' = "Error processing file. Continuing with next file."
    /\ tasks' = With(Without(t),
          [t EXCEPT !.pc = "alertContinue",
                    !.log = Append(log, EvAlert("error", modal'))])
    /\ UNCHANGED loadingVars

\* Several files were selected and the read of file i has finished.
MultiFileRead ==
    \E t \in Waiting("handleFileSelect", "reading") :
    \E ok \in BOOLEAN :
        /\ Free
        /\ Len(t.files) > 1
        /\ LET file == t.files[t.i] IN
           IF ok
           THEN /\ tasks' = With(Without(t),
                    [t EXCEPT !.pc = "add",
                              !.log = Append(@,
                                EvReq(AddDocumentReq(<<>>, file.name), file.name))])
                /\ UNCHANGED <<loadingVars, modal>>
           ELSE MultiFileCatch(t, Append(t.log, EvReadFail(file.name)))
        /\ ended' = NoEnd
        /\ UNCHANGED <<globals, docVars, hidden, articleInput, fileVars, chatVars,
                       reviewVars, assistVars>>

\* Several files: the add_document response for file i.
MultiFileAddResponse ==
    \E t \in Waiting("handleFileSelect", "add") :
    \E ok \in BOOLEAN :
        /\ Free
        /\ Len(t.files) > 1
        /\ LET file == t.files[t.i] IN
           IF ok
           THEN MultiFileNext(t, t.log) /\ UNCHANGED modal
           ELSE MultiFileCatch(t, Append(t.log,
                    EvFail(AddDocumentReq(<<>>, file.name), file.name)))
        /\ ended' = NoEnd
        /\ UNCHANGED <<globals, docVars, hidden, articleInput, fileVars, chatVars,
                       reviewVars, assistVars>>

\* The "Continuing with next file" alert is closed.
MultiFileAlertClosed ==
    \E t \in Waiting("handleFileSelect", "alertContinue") :
        /\ modal' = "none"
        /\ MultiFileAfterCatch(t, t.log)
        /\ ended' = NoEnd
        /\ UNCHANGED <<globals, docVars, hidden, articleInput, fileVars, chatVars,
                       reviewVars, assistVars>>

\* loadDocuments returns after the loop.
MultiFileDocumentsResponse ==
    \E t \in Waiting("handleFileSelect", "documents") :
    \E resp \in DocsResponses :
        /\ Free
        /\ Len(t.files) > 1
        /\ loadDocuments(resp)
        /\ setLoading(FALSE, articleInput, documents')
        /\ fileNameDisplay' = <<"file(s) processed.", ToString(Len(t.files))>>
        /\ fileInput' = <<>>
        /\ tasks' = Without(t)
        /\ ended' = End(t.op, t.log \o DocsOutcome(resp))
        /\ UNCHANGED <<globals, currentFileName, articleInput, chatVars, reviewVars,
                       assistVars, modal>>

\* ------------------------------------------------------------------ review
\* reviewProgressLog.innerHTML += `<div class="log-entry">${html}</div>`
addProgressLog(log, html) == Append(log, html)

\* updatePhaseIndicator(phaseName, percentage)
updatePhaseIndicator(phaseName, percentage) ==
    [text |-> phaseName, pct |-> percentage]

\* The phase names the backend reports, in its order.
PhaseOrder ==
    <<"Scoping", "Literature Search", "Critical Analysis", "Synthesis",
      "Academic Writing", "Refinement">>
phaseOf(i) == IF i <= Len(PhaseOrder) THEN PhaseOrder[i] ELSE "Extra"

\* phaseNames[phase.phase] || phase.phase
phaseNames(phase) ==
    CASE phase = "Scoping" -> "Scoping and Question Development"
      [] phase = "Literature Search" -> "Comprehensive Literature Search"
      [] phase = "Critical Analysis" -> "Critical Analysis and Theme Identification"
      [] phase = "Synthesis" -> "Synthesis and Framework Development"
      [] phase = "Academic Writing" -> "Academic Writing (5 C's Framework)"
      [] phase = "Refinement" -> "Iterative Refinement and Quality Assurance"
      [] OTHER -> phase

progressPercentages == <<15, 30, 50, 70, 85, 100>>

\* progressPercentages[i] || (i + 1) * 16, for the JavaScript index i.
progressOf(i) ==
    IF i + 1 <= Len(progressPercentages)
    THEN progressPercentages[i + 1] ELSE (i + 1) * 16

ReviewReq == apiCall("/generate_enhanced_review", "POST",
                     <<"topic", "review_type", "depth">>)

NoFinalReview == <<"Review generation completed but no content received.">>
SectionNames ==
    <<"Introduction", "Methodology", "Themes", "Analysis", "Synthesis",
      "Conclusion">>

\* renderEnhancedDraftViewer(process)
renderEnhancedDraftViewer(hasPhases) ==
    IF hasPhases THEN SectionNames ELSE NoButtons

\* handleGenerateReview up to its await.
SubmitReview ==
    \E topic \in UserTexts :
        /\ Free
        /\ Visible("literatureReviewSection")
        /\ ~disabled["generateReviewButton"]
        /\ IF Trim(topic) = <<>>
           THEN /\ ended' = End("handleGenerateReview", <<EvTopic(topic)>>)
                /\ UNCHANGED <<loadingVars, hidden, reviewVars, tasks, modal>>
           ELSE IF Len(documents) = 0
           THEN /\ modal' = "Please add some documents first!"
                /\ ended' = End("handleGenerateReview",
                                <<EvTopic(topic), EvAlert("error", modal')>>)
                /\ UNCHANGED <<loadingVars, hidden, reviewVars, tasks>>
           ELSE IF addProgressLogDefined
           THEN /\ CanStart
                /\ hidden' = hidden \ {"reviewGenerationProgress"}
                /\ reviewProgressLog' = addProgressLog(<<>>, "Phase 1: Initializing")
                /\ reviewDraftOutput' = <<>>
                /\ draftVersionControls' = NoButtons
                /\ draftHistory' = <<>>
                /\ setLoading(TRUE, articleInput, documents)
                /\ phaseIndicator' =
                     updatePhaseIndicator("Scoping and Question Development", 15)
                /\ tasks' = With(tasks,
                     NewTask("handleGenerateReview", "generate",
                             <<EvTopic(topic), EvReq(ReviewReq, "")>>))
                /\ ended' = NoEnd
                /\ UNCHANGED <<firstDraft, modal>>
           \* addProgressLog throws in the try, before the request, and
           \* again in the catch, before its alert: finally runs and the
           \* handler ends with the error.
           ELSE /\ hidden' = hidden \ {"reviewGenerationProgress"}
                /\ reviewProgressLog' = <<>>
                /\ reviewDraftOutput' = <<>>
                /\ draftVersionControls' = NoButtons
                /\ draftHistory' = <<>>
                /\ setLoading(FALSE, articleInput, documents)
                /\ ended' = End("handleGenerateReview",
                                <<EvTopic(topic),
                                  EvThrow("addProgressLog is not defined")>>)
                /\ UNCHANGED <<phaseIndicator, firstDraft, tasks, modal>>
        /\ CountOperation
        /\ UNCHANGED <<docVars, articleInput, fileVars, chatVars, assistVars>>

\* One turn of the loop of processReviewPhases, up to its timer.
ReplayPhase(t, u, k) ==
    /\ phaseIndicator' =
         updatePhaseIndicator(phaseNames(phaseOf(k)), progressOf(k - 1))
    /\ reviewProgressLog' = addProgressLog(reviewProgressLog, phaseOf(k))
    /\ tasks' = With(Without(t), [u EXCEPT !.pc = "phase", !.k = k])
    /\ ended' = NoEnd
    /\ UNCHANGED <<loadingVars, hidden, draftHistory, reviewDraftOutput,
                   draftVersionControls, firstDraft, writingEditor>>

\* Mutant: the new draft is put in front (unshift).
unshiftDraft(history, finalReview) == <<finalReview>> \o history

\* draftHistory.push(finalReview)
pushDraft(history, finalReview) == Append(history, finalReview)

\* handleGenerateReview after the phases: the final review is stored and
\* shown, then finally { setLoading(false) }.
DisplayFinalReview(t, final, hasPhases) ==
    LET finalReview == IF final = <<>> THEN NoFinalReview ELSE final IN
    /\ draftHistory' = pushDraft(draftHistory, finalReview)
    /\ firstDraft' = IF firstDraft = <<>> THEN finalReview ELSE firstDraft
    /\ reviewDraftOutput' = NlToBr(finalReview)
    /\ draftVersionControls' = renderEnhancedDraftViewer(hasPhases)
    /\ writingEditor' = NlToBr(finalReview)
    /\ hidden' = hidden \ {"writingAssistantSection", "sectionRefinementControls"}
    /\ reviewProgressLog' = addProgressLog(reviewProgressLog, "Complete!")
    /\ phaseIndicator' = updatePhaseIndicator("Review Complete", 100)
    /\ setLoading(FALSE, articleInput, documents)
    /\ tasks' = Without(t)
    /\ ended' = End(t.op, t.log)

\* The generate_enhanced_review response, with one of counts phases.
ReviewResponseWith(counts) ==
    \E t \in Waiting("handleGenerateReview", "generate") :
    \E ok \in BOOLEAN, hasPhases \in BOOLEAN, n \in counts,
       final \in ReviewTexts :
        /\ Free
        /\ (~ok => ~hasPhases /\ n = 0 /\ final = <<>>)
        /\ (~hasPhases => n = 0)
        /\ IF ~ok
           THEN /\ reviewProgressLog' = addProgressLog(reviewProgressLog, "Error")
                /\ modal' = "Error generating enhanced literature review."
                /\ tasks' = With(Without(t),
                     [t EXCEPT !.pc = "alertError",
                               !.log = @ \o <<EvFail(ReviewReq, ""),
                                              EvLog("error", "Error"),
                                              EvAlert("error", modal')>>])
                /\ ended' = NoEnd
                /\ UNCHANGED <<loadingVars, hidden, draftHistory, phaseIndicator,
                               reviewDraftOutput, draftVersionControls,
                               firstDraft, writingEditor>>
           ELSE IF hasPhases /\ n > 0
           THEN /\ ReplayPhase(t, [t EXCEPT !.text = final, !.phases = n,
                                            !.hasProcess = hasPhases], 1)
                /\ UNCHANGED modal
           ELSE /\ DisplayFinalReview(t, final, hasPhases)
                /\ UNCHANGED modal
        /\ UNCHANGED <<globals, docVars, articleInput, fileVars, chatVars,
                       suggestionsPanel, refinementFeedback>>

\* The response with at most MaxPhases phases.
ReviewResponse == ReviewResponseWith(0..MaxPhases)

\* The response with the six phases the page names, or with more.
ReviewResponseLong == ReviewResponseWith({0, 6, MaxLongPhases})

\* The 500 ms timer of processReviewPhases fires.
ReviewPhaseTimer ==
    \E t \in Waiting("handleGenerateReview", "phase") :
        /\ Free
        /\ IF t.k < t.phases
           THEN ReplayPhase(t, t, t.k + 1)
           ELSE DisplayFinalReview(t, t.text, t.hasProcess)
        /\ UNCHANGED <<globals, docVars, articleInput, fileVars, chatVars,
                       suggestionsPanel, refinementFeedback, modal>>

\* The error alert of handleGenerateReview is closed.
ReviewAlertClosed ==
    \E t \in Waiting("handleGenerateReview", "alertError") :
        /\ modal' = "none"
        /\ phaseIndicator' = updatePhaseIndicator("Error Occurred", 0)
        /\ setLoading(FALSE, articleInput, documents)
        /\ tasks' = Without(t)
        /\ ended' = End(t.op, t.log)
        /\ UNCHANGED <<globals, docVars, hidden, articleInput, fileVars, chatVars,
                       draftHistory, reviewProgressLog, reviewDraftOutput,
                       draftVersionControls, firstDraft, assistVars>>

\* A click on a section button: the button's own listener
\* (showSectionContent), then the listener of #draft-version-controls.
showSectionContent(history) ==
    NlToBr(IF history # <<>> THEN history[1] ELSE <<"No content available">>)

versionControlsClick(history, index) ==
    NlToBr(IF index + 1 <= Len(history) THEN history[index + 1]
           ELSE <<"Could not load this version.">>)

ClickSectionButton ==
        /\ draftVersionControls # <<>>
        /\ Free
        \* target.dataset.index is not set on a section button: '0'.
        /\ reviewDraftOutput' = versionControlsClick(draftHistory, 0)
        /\ ended' = NoEnd
        /\ UNCHANGED <<globals, loadingVars, docVars, hidden, articleInput, fileVars,
                       chatVars, draftHistory, reviewProgressLog, phaseIndicator,
                       draftVersionControls, firstDraft, assistVars, tasks,
                       modal>>

\* ------------------------------------------------------------------ refine
RefineReq == apiCall("/refine_review_section", "POST",
                     <<"section_content", "refinement_type", "feedback">>)

\* Mutant: the request is sent whatever the displayed draft holds.
RefineSectionNoGuard ==
    \E fb \in UserTexts :
        /\ Free
        /\ Visible("sectionRefinementControls")
        /\ refinementFeedback' = fb
        /\ CanStart
        /\ Len(reviewProgressLog) + 2 <= MaxLog
        /\ setLoading(TRUE, articleInput, documents)
        /\ tasks' = With(tasks,
             [NewTask("handleSectionRefinement", "refine",
                      <<EvReq(RefineReq, "")>>)
                EXCEPT !.text = BrToNl(reviewDraftOutput)])
        /\ ended' = NoEnd
        /\ CountOperation
        /\ UNCHANGED <<docVars, hidden, articleInput, fileVars, chatVars,
                       reviewVars, writingEditor, suggestionsPanel, modal>>

\* handleSectionRefinement(refinementType) up to its await; the user has
\* typed fb into #refinement-feedback.
RefineSection ==
    \E fb \in UserTexts :
        /\ Free
        /\ Visible("sectionRefinementControls")
        /\ refinementFeedback' = fb
        /\ IF reviewDraftOutput = <<>>
           THEN /\ modal' = "No section content to refine."
                /\ ended' = End("handleSectionRefinement",
                                <<EvAlert("error", modal')>>)
                /\ UNCHANGED <<loadingVars, tasks>>
           ELSE /\ CanStart
                /\ Len(reviewProgressLog) + 2 <= MaxLog
                /\ setLoading(TRUE, articleInput, documents)
                /\ tasks' = With(tasks,
                     [NewTask("handleSectionRefinement", "refine",
                              <<EvReq(RefineReq, "")>>)
                        EXCEPT !.text = BrToNl(reviewDraftOutput)])
                /\ ended' = NoEnd
                /\ UNCHANGED modal
        /\ CountOperation
        /\ UNCHANGED <<docVars, hidden, articleInput, fileVars, chatVars,
                       reviewVars, writingEditor, suggestionsPanel>>

\* The refine_review_section response; a response without refined_section
\* throws in the try and ends in the catch like a failed request.
RefineResponse ==
    \E t \in Waiting("handleSectionRefinement", "refine") :
    \E ok \in BOOLEAN, has \in BOOLEAN, refined \in RefinedTexts :
        /\ Free
        /\ (~ok => ~has)
        /\ IF ok /\ has /\ addProgressLogDefined
           THEN /\ reviewDraftOutput' = NlToBr(refined)
                /\ writingEditor' = NlToBr(refined)
                /\ refinementFeedback' = <<>>
                /\ reviewProgressLog' =
                     addProgressLog(addProgressLog(reviewProgressLog,
                        "Refinement Applied"), "Improvements")
                /\ setLoading(FALSE, articleInput, documents)
                /\ tasks' = Without(t)
                /\ ended' = End(t.op, t.log)
                /\ UNCHANGED modal
           \* addProgressLog throws after the section was replaced: the
           \* catch alerts.
           ELSE IF ok /\ has
           THEN /\ reviewDraftOutput' = NlToBr(refined)
                /\ writingEditor' = NlToBr(refined)
                /\ refinementFeedback' = <<>>
                /\ modal' = "Error applying refinement"
                /\ tasks' = With(Without(t),
                     [t EXCEPT !.pc = "alertError",
                               !.log = @ \o
                                 <<EvThrow("addProgressLog is not defined"),
                                   EvAlert("error", modal')>>])
                /\ ended' = NoEnd
                /\ UNCHANGED <<loadingVars, reviewProgressLog>>
           ELSE /\ modal' = "Error applying refinement"
                /\ tasks' = With(Without(t),
                     [t EXCEPT !.pc = "alertError",
                               !.log = @ \o
                                 (IF ok THEN <<>> ELSE <<EvFail(RefineReq, "")>>)
                                 \o <<EvAlert("error", modal')>>])
                /\ ended' = NoEnd
                /\ UNCHANGED <<loadingVars, reviewDraftOutput, writingEditor,
                               refinementFeedback, reviewProgressLog>>
        /\ UNCHANGED <<globals, docVars, hidden, articleInput, fileVars, chatVars,
                       draftHistory, phaseIndicator, draftVersionControls,
                       firstDraft, suggestionsPanel>>

\* ------------------------------------------------------------------ chat
QueryReq == apiCall("/query", "POST", <<"question">>)

\* addMessageToChat(text, sender)
addMessageToChat(log, text, sender) ==
    Append(log, [sender |-> sender, text |-> text])

UserMessages == {i \in DOMAIN chat : chat[i].sender = "user"}

\* handleAskQuestion up to its await; the user has typed q.
AskQuestion ==
    \E q \in UserTexts :
        /\ Free
        /\ Visible("qaSection")
        /\ ~disabled["questionInput"]
        /\ ~disabled["chatButton"]
        /\ IF Trim(q) = <<>> \/ isLoading \/ Len(documents) = 0
           THEN /\ questionInput' = q
                /\ ended' = End("handleAskQuestion", <<>>)
                /\ UNCHANGED <<loadingVars, chat, tasks>>
           ELSE /\ CanStart
                /\ Cardinality(UserMessages) < MaxChat
                /\ setLoading(TRUE, articleInput, documents)
                /\ chat' = addMessageToChat(chat, Trim(q), "user")
                /\ questionInput' = <<>>
                /\ tasks' = With(tasks,
                     NewTask("handleAskQuestion", "query",
                             <<EvReq(QueryReq, "question")>>))
                /\ ended' = NoEnd
        /\ CountOperation
        /\ UNCHANGED <<docVars, hidden, articleInput, fileVars, reviewVars,
                       assistVars, modal>>

\* The query response of handleAskQuestion.
AskResponse ==
    \E t \in Waiting("handleAskQuestion", "query") :
    \E ok \in BOOLEAN, answer \in AnswerTexts :
        /\ Free
        /\ chat' = addMessageToChat(chat,
              IF ok THEN answer ELSE <<"Sorry, I encountered an error">>,
              "model")
        /\ setLoading(FALSE, articleInput, documents)
        /\ tasks' = Without(t)
        /\ ended' = End(t.op,
              IF ok THEN t.log
              ELSE t.log \o <<EvFail(QueryReq, "question"),
                              EvInline("error", "Sorry, I encountered an error")>>)
        /\ UNCHANGED <<globals, docVars, hidden, articleInput, fileVars, questionInput,
                       reviewVars, assistVars, modal>>

\* ------------------------------------------------------------------ assistant
\* writingEditor.innerText: a <br> reads as a line break.
innerText(html) == BrToNl(html)

\* The user edits the writing editor.
EditWriting ==
    \E x \in UserTexts :
        /\ Free
        /\ Visible("writingAssistantSection")
        /\ x # writingEditor
        /\ writingEditor' = x
        /\ ended' = NoEnd
        /\ UNCHANGED <<globals, loadingVars, docVars, hidden, articleInput, fileVars,
                       chatVars, reviewVars, suggestionsPanel,
                       refinementFeedback, tasks, modal>>

\* handleAnalyzeText or handleSimilarityCheck up to its await.
StartAssist(op, button) ==
    /\ Free
    /\ Visible("writingAssistantSection")
    /\ ~disabled[button]
    /\ IF Trim(innerText(writingEditor)) = <<>>
       THEN /\ modal' = "Please write some text first."
            /\ ended' = End(op, <<EvAlert("error", modal')>>)
            /\ UNCHANGED <<loadingVars, suggestionsPanel, tasks>>
       ELSE /\ CanStart
            /\ setLoading(TRUE, articleInput, documents)
            /\ suggestionsPanel' =
                 IF op = "handleAnalyzeText" THEN <<"Analyzing...">>
                 ELSE suggestionsPanel
            /\ tasks' = With(tasks,
                 NewTask(op, "query", <<EvReq(QueryReq, op)>>))
            /\ ended' = NoEnd
            /\ UNCHANGED modal
    /\ CountOperation
    /\ UNCHANGED <<docVars, hidden, articleInput, fileVars, chatVars,
                   reviewVars, writingEditor, refinementFeedback>>

AnalyzeText == StartAssist("handleAnalyzeText", "analyzeTextButton")

SimilarityCheck == StartAssist("handleSimilarityCheck", "similarityCheckButton")

\* The query response of handleAnalyzeText; a response without answer
\* throws in the try and ends in the catch like a failed request.
AnalyzeResponse ==
    \E t \in Waiting("handleAnalyzeText", "query") :
    \E ok \in BOOLEAN, has \in BOOLEAN, answer \in AnswerTexts :
        /\ Free
        /\ (~ok => ~has)
        /\ suggestionsPanel' =
             IF ok /\ has THEN <<"GraphRAG Analysis">> \o NlToBr(answer)
             ELSE <<"Failed to analyze text.">>
        /\ setLoading(FALSE, articleInput, documents)
        /\ tasks' = Without(t)
        /\ ended' = End(t.op,
             IF ok /\ has THEN t.log
             ELSE t.log
                  \o (IF ok THEN <<>>
                      ELSE <<EvFail(QueryReq, "handleAnalyzeText")>>)
                  \o <<EvInline("error", "Failed to analyze text.")>>)
        /\ UNCHANGED <<globals, docVars, hidden, articleInput, fileVars, chatVars,
                       reviewVars, writingEditor, refinementFeedback, modal>>

\* The query response of handleSimilarityCheck: an alert either way.
SimilarityResponse ==
    \E t \in Waiting("handleSimilarityCheck", "query") :
    \E ok \in BOOLEAN :
        /\ Free
        /\ modal' = IF ok THEN "Similarity Check Results"
                    ELSE "Error during similarity check."
        /\ tasks' = With(Without(t),
             [t EXCEPT !.pc = IF ok THEN "alertResult" ELSE "alertError",
                       !.log = @ \o
                         (IF ok THEN <<EvAlert("info", modal')>>
                          ELSE <<EvFail(QueryReq, "handleSimilarityCheck"),
                                 EvAlert("error", modal')>>)])
        /\ ended' = NoEnd
        /\ UNCHANGED <<globals, loadingVars, docVars, hidden, articleInput, fileVars,
                       chatVars, reviewVars, assistVars>>

\* ------------------------------------------------------------------ Next
\* Every operation of the page, for at most MaxOps handlers started.
Init == InitWith(MaxOps)

Next ==
    \/ StatusResponse
    \/ StatusDocumentsResponse
    \/ TypeArticle
    \/ DismissAlert
    \/ FinallyAfterAlert
    \/ ProcessClick
    \/ ProcessAddResponse
    \/ ProcessDocumentsResponse
    \/ FileSelectNone
    \/ FileSelect
    \/ SingleFileRead
    \/ SingleFileAddResponse
    \/ SingleFileAlertClosed
    \/ SingleFileDocumentsResponse
    \/ MultiFileRead
    \/ MultiFileAddResponse
    \/ MultiFileAlertClosed
    \/ MultiFileDocumentsResponse
    \/ SubmitReview
    \/ ReviewResponse
    \/ ReviewPhaseTimer
    \/ ReviewAlertClosed
    \/ ClickSectionButton
    \/ RefineSection
    \/ RefineResponse
    \/ AskQuestion
    \/ AskResponse
    \/ EditWriting
    \/ AnalyzeText
    \/ SimilarityCheck
    \/ AnalyzeResponse
    \/ SimilarityResponse

Spec == Init /\ [][Next]_vars

\* The knowledge base alone: startup, pasted text and file selections,
\* any number of them.
NextDocs ==
    \/ StatusResponse
    \/ StatusDocumentsResponse
    \/ TypeArticle
    \/ DismissAlert
    \/ FinallyAfterAlert
    \/ ProcessClick
    \/ ProcessAddResponse
    \/ ProcessDocumentsResponse
    \/ FileSelectNone
    \/ FileSelect
    \/ SingleFileRead
    \/ SingleFileAddResponse
    \/ SingleFileAlertClosed
    \/ SingleFileDocumentsResponse
    \/ MultiFileRead
    \/ MultiFileAddResponse
    \/ MultiFileAlertClosed
    \/ MultiFileDocumentsResponse

SpecDocs == InitWith(-1) /\ [][NextDocs]_vars

\* The review workflow alone: startup, review generations, section buttons
\* and refinements, any number of them.
NextReview ==
    \/ StatusResponse
    \/ StatusDocumentsResponse
    \/ DismissAlert
    \/ FinallyAfterAlert
    \/ SubmitReview
    \/ ReviewResponse
    \/ ReviewPhaseTimer
    \/ ReviewAlertClosed
    \/ ClickSectionButton
    \/ RefineSection
    \/ RefineResponse

SpecReview == InitWith(-1) /\ [][NextReview]_vars

\* The chat next to the review workflow: startup, review generations,
\* refinements and questions, at most MaxChatOps of them.
NextChat ==
    \/ StatusResponse
    \/ StatusDocumentsResponse
    \/ DismissAlert
    \/ FinallyAfterAlert
    \/ SubmitReview
    \/ ReviewResponse
    \/ ReviewPhaseTimer
    \/ ReviewAlertClosed
    \/ RefineSection
    \/ RefineResponse
    \/ AskQuestion
    \/ AskResponse

SpecChat == InitWith(MaxChatOps) /\ [][NextChat]_vars

\* Review generations alone, one after the other, with long responses.
NextPhases ==
    \/ StatusResponse
    \/ StatusDocumentsResponse
    \/ SubmitReview
    \/ ReviewResponseLong
    \/ ReviewPhaseTimer
    \/ ReviewAlertClosed

SpecPhases == InitWith(MaxPhaseOps) /\ [][NextPhases]_vars

\* ------------------------------------------------------------------ fairness
\* What the runtime and the environment do on their own: a pending request
\* is answered or fails, a file read ends, a timer fires, an open alert is
\* closed, and the handler runs on to its next await or to its end.
Progress ==
    \/ StatusResponse
    \/ StatusDocumentsResponse
    \/ DismissAlert
    \/ FinallyAfterAlert
    \/ ProcessAddResponse
    \/ ProcessDocumentsResponse
    \/ SingleFileRead
    \/ SingleFileAddResponse
    \/ SingleFileAlertClosed
    \/ SingleFileDocumentsResponse
    \/ MultiFileRead
    \/ MultiFileAddResponse
    \/ MultiFileAlertClosed
    \/ MultiFileDocumentsResponse
    \/ ReviewResponse
    \/ ReviewPhaseTimer
    \/ ReviewAlertClosed
    \/ RefineResponse
    \/ AskResponse
    \/ AnalyzeResponse
    \/ SimilarityResponse

\* What the user does: typing, and the handlers the user starts.
Starts ==
    \/ TypeArticle
    \/ ProcessClick
    \/ FileSelectNone
    \/ FileSelect
    \/ SubmitReview
    \/ RefineSection
    \/ AskQuestion
    \/ AnalyzeText
    \/ SimilarityCheck

NextLive == Starts \/ Progress

\* At most MaxLiveOps handlers of the page, where what is pending is not
\* left pending for ever.
SpecLive == InitWith(MaxLiveOps) /\ [][NextLive]_vars /\ WF_vars(Progress)

\* ------------------------------------------------------------------ ingestion
\* The ingestion script of the README (main_with_llmgraphtranformer.py,
\* DocumentTracker): its code is not in this repository's sources, the
\* README's description is modelled.
\* SHA256 of a file's content: different contents, different hashes.
sha256(content) == IF content = 1 THEN "9f86d0" ELSE "60303a"

\* Mutant: a tracked path is never processed again, changed or not.
needsProcessingIgnoresHash(path, force) ==
    force \/ tracking[path] = NotTracked

\* "Hash Comparison", "Selective Processing": a document is processed when
\* it is new, when its hash changed, or under --force-reprocess.
needsProcessing(path, force) ==
    force \/ tracking[path] # sha256(docxFiles[path])

\* The variables of the page, which the script leaves alone.
pageVars ==
    <<isLoading, documents, currentFileName, draftHistory, loaderHidden,
      disabled, hidden, knowledgeList, articleInput, fileInput,
      fileNameDisplay, questionInput, chat, reviewProgressLog, phaseIndicator,
      reviewDraftOutput, draftVersionControls, writingEditor, suggestionsPanel,
      refinementFeedback, tasks, modal, ended, lastDocs, firstDraft, budget,
      addProgressLogDefined>>

\* A .docx file is added, modified or removed between two runs.
EditDocx ==
    \E p \in Paths, c \in Contents \cup {0} :
        /\ c # docxFiles[p]
        /\ docxFiles' = [docxFiles EXCEPT ![p] = c]
        /\ UNCHANGED <<tracking, embeddings, runs, forceReprocess, processed,
                       skipped, pageVars>>

\* One run of the script, with or without --force-reprocess.
RunPipeline ==
    \E force \in BOOLEAN :
        LET present == {p \in Paths : docxFiles[p] # 0}
            todo == {p \in present : needsProcessing(p, force)}
        IN  /\ runs < MaxRuns
            /\ runs' = runs + 1
            /\ forceReprocess' = force
            /\ processed' = todo
            /\ skipped' = present \ todo
            /\ embeddings' = [p \in Paths |->
                    IF p \in todo THEN embeddings[p] + 1 ELSE embeddings[p]]
            /\ tracking' = [p \in Paths |->
                    IF p \in todo THEN sha256(docxFiles[p]) ELSE tracking[p]]
            /\ UNCHANGED <<docxFiles, pageVars>>

NextIngest ==
    \/ EditDocx
    \/ RunPipeline

SpecIngest == InitWith(0) /\ [][NextIngest]_vars

\* ------------------------------------------------------------------ claims
IsReq(e) == e[1] = "req"
Requests(log) == SelectSeq(log, IsReq)
\* The (method, URL) pairs an operation sent, in order.
Sent(log) == [i \in DOMAIN Requests(log) |->
                <<Requests(log)[i][2], Requests(log)[i][3]>>]
\* The traces of the operations in flight and of the one that just ended.
OpLogs == {t.log : t \in BagToSet(tasks)} \cup {ended.log}

GetStatus == <<"GET", "/api/status">>
GetDocuments == <<"GET", "/api/documents">>
PostAddDocument == <<"POST", "/api/add_document">>
PostQuery == <<"POST", "/api/query">>
PostGenerate == <<"POST", "/api/generate_enhanced_review">>
PostRefine == <<"POST", "/api/refine_review_section">>

Contract ==
    {GetStatus, GetDocuments, PostAddDocument, PostQuery, PostGenerate,
     PostRefine}

\* C1: every request the client issues, in any operation, is one of the six
\* (method, path) pairs of the REST contract.
C1_RequestsInContract ==
    \A log \in OpLogs : \A i \in DOMAIN Sent(log) : Sent(log)[i] \in Contract

\* C1 witness: a refinement has ended after sending its request, so startup,
\* a review generation and a refinement have all issued theirs.
C1_Witness ==
    /\ ended.op = "handleSectionRefinement"
    /\ Sent(ended.log) = <<PostRefine>>

\* C2 as stated: every operation that ends has issued exactly one request.
C2_SingleExchange ==
    ended.op # "none" => Len(Requests(ended.log)) = 1

\* The files of a selection, from the trace of its handleFileSelect.
Selected(log) ==
    IF log # <<>> /\ log[1][1] = "select" THEN Tail(log[1]) ELSE <<>>

\* add_document requests, then at most one GET /api/documents at the end.
AddsThenDocuments(r) ==
    \A i \in DOMAIN r :
        \/ r[i] = PostAddDocument
        \/ i = Len(r) /\ r[i] = GetDocuments

\* C2 amended: the number of requests of an operation depends on the
\* operation.  A question, an analysis, a similarity check, a review
\* generation and a refinement send one request (none when the input check
\* rejects them); startup sends GET /api/status and then GET /api/documents
\* only when the status is ready; process-article sends add_document and
\* then the reload; a selection of n files sends at most one add_document
\* per file and then at most one reload, n + 1 requests at most.
C2_RequestsPerOperation ==
    LET r == Sent(ended.log) IN
    CASE ended.op = "none" -> TRUE
      [] ended.op = "initializeApp" ->
            r \in {<<GetStatus>>, <<GetStatus, GetDocuments>>}
      [] ended.op = "handleProcessArticle" ->
            r \in {<<>>, <<PostAddDocument>>, <<PostAddDocument, GetDocuments>>}
      [] ended.op = "handleFileSelect" ->
            AddsThenDocuments(r) /\ Len(r) <= Len(Selected(ended.log)) + 1
      [] ended.op = "handleGenerateReview" -> r \in {<<>>, <<PostGenerate>>}
      [] ended.op = "handleSectionRefinement" -> r \in {<<>>, <<PostRefine>>}
      [] OTHER -> r \in {<<>>, <<PostQuery>>}

\* C2 witness: a selection of two files has ended after three requests.
C2_Witness ==
    /\ ended.op = "handleFileSelect"
    /\ Len(Selected(ended.log)) = 2
    /\ Sent(ended.log) = <<PostAddDocument, PostAddDocument, GetDocuments>>

\* C3 as stated: when an operation ends, every failed request in it was
\* followed by an error alert, an error line in the progress log or an
\* error message written into the page.
C3_FailuresSurfaced ==
    \A i \in DOMAIN ended.log :
        ended.log[i][1] = "fail" =>
            \E j \in DOMAIN ended.log :
                /\ j > i
                /\ ended.log[j][1] \in {"alert", "log", "inline"}
                /\ ended.log[j][2] = "error"

\* The files whose attempt began, in order.
IsAttempt(e) == e[1] = "attempt"
Attempts(log) ==
    [i \in DOMAIN SelectSeq(log, IsAttempt) |-> SelectSeq(log, IsAttempt)[i][2]]

FileNames(files) == [i \in DOMAIN files |-> files[i].name]

\* C4: in a selection of two or more files every file is attempted once, in
\* selection order, a failed read or upload is answered by an alert and the
\* next file follows; the document list is reloaded once, after the last
\* file.
C4_BatchContinues ==
    /\ \A t \in BagToSet(tasks) :
          (t.op = "handleFileSelect" /\ Len(t.files) >= 2) =>
              /\ Attempts(t.log) = SubSeq(FileNames(t.files), 1, t.i)
              /\ (t.pc = "documents" => t.i = Len(t.files))
    /\ (ended.op = "handleFileSelect" /\ Len(Selected(ended.log)) >= 2) =>
          /\ Attempts(ended.log) = Selected(ended.log)
          /\ Sent(ended.log) # <<>>
          /\ Sent(ended.log)[Len(Sent(ended.log))] = GetDocuments
          /\ \A i \in 1..(Len(Sent(ended.log)) - 1) :
                Sent(ended.log)[i] = PostAddDocument
          /\ \A i \in DOMAIN ended.log :
                ended.log[i][1] \in {"fail", "readfail"}
                /\ ended.log[i] # EvFail(DocumentsReq, "") =>
                    /\ i < Len(ended.log)
                    /\ ended.log[i + 1][1] = "alert"

\* C4 witness: a selection of two files has ended, the first file failed
\* and the second was uploaded.
C4_Witness ==
    /\ ended.op = "handleFileSelect"
    /\ Len(Selected(ended.log)) = 2
    /\ \E i \in DOMAIN ended.log :
          /\ ended.log[i][1] \in {"fail", "readfail"}
          /\ ended.log[i][Len(ended.log[i])] = Selected(ended.log)[1]
    /\ \E i \in DOMAIN ended.log :
          /\ ended.log[i][1] = "req"
          /\ ended.log[i][4] = Selected(ended.log)[2]

\* C5: no retry: within one operation no request (same method, URL and
\* item) is sent twice, so none is sent again after it failed.
C5_NoRetry ==
    \A log \in OpLogs : \A i, j \in DOMAIN log :
        (i < j /\ log[i][1] = "req" /\ log[j][1] = "req") => log[i] # log[j]

\* C5 witness: an operation has ended in which an upload failed and a later
\* request was still sent.
C5_Witness ==
    \E i, j \in DOMAIN ended.log :
        /\ i < j
        /\ ended.log[i][1] = "fail"
        /\ ended.log[i][3] = "/api/add_document"
        /\ ended.log[j][1] = "req"

\* C6 as stated: index 0 of draftHistory is the first draft produced in
\* this page load.
C6_IndexZeroIsFirstDraft ==
    draftHistory # <<>> => draftHistory[1] = firstDraft

\* C6 amended: index 0 is the first draft produced since the latest review
\* generation began: a step changes draftHistory only by emptying it (a
\* generation starts) or by adding a draft at its end, so index 0 is never
\* replaced while the history stays non-empty.
C6_IndexZeroKept ==
    [][/\ (draftHistory # <<>> /\ draftHistory' # <<>>) =>
            draftHistory'[1] = draftHistory[1]
       /\ draftHistory' # draftHistory =>
            \/ draftHistory' = <<>>
            \/ /\ Len(draftHistory') = Len(draftHistory) + 1
               /\ SubSeq(draftHistory', 1, Len(draftHistory)) = draftHistory
      ]_vars

\* C6 witness: the history holds a draft that is not the first one of the
\* page load.
C6_Witness ==
    /\ draftHistory # <<>>
    /\ draftHistory[1] # firstDraft

\* C7 as stated: with no operation loading and a non-empty text area the
\* Process button is enabled.
C7_ProcessEnabledForText ==
    (~isLoading /\ articleInput # <<>>) => ~disabled["processButton"]

\* The documents the last successful GET /api/documents response carried.
ExpectedDocuments ==
    IF lastDocs.ok /\ lastDocs.has THEN lastDocs.docs ELSE <<>>

\* C8: the document list is the documents array of the last successful
\* GET /api/documents response (empty without one, or without the field),
\* the listing shows one card per entry in the same order, and a failed
\* reload changes neither.
C8_ListFollowsResponse ==
    /\ documents = ExpectedDocuments
    /\ Len(knowledgeList) = Len(documents)
    /\ \A i \in DOMAIN documents :
          knowledgeList[i] = [h4 |-> documents[i].filename,
                              chunks |-> documents[i].chunks]

\* C8 witness: a reload has just failed while the list holds two different
\* documents of an earlier response.
C8_Witness ==
    /\ Len(documents) = 2
    /\ documents[1] # documents[2]
    /\ \E i \in DOMAIN ended.log : ended.log[i] = EvFail(DocumentsReq, "")

\* C9 as stated: while isLoading is true the loader is visible and every
\* control is disabled; the review and chat controls are also disabled
\* whenever the document list is empty.
C9_UiFollowsLoading ==
    /\ isLoading => (~loaderHidden /\ \A c \in Controls : disabled[c])
    /\ Len(documents) = 0 =>
          \A c \in {"generateReviewButton", "questionInput", "chatButton"} :
              disabled[c]

\* C10 as stated: a startup whose GET /api/status failed has shown the
\* 'Could not connect to GraphRAG system' alert by the time it ends.
C10_StartupFailureAlerts ==
    (/\ ended.op = "initializeApp"
     /\ \E i \in DOMAIN ended.log :
           ended.log[i] = EvFail(apiCall("/status", "GET", <<>>), ""))
    => \E j \in DOMAIN ended.log :
           /\ ended.log[j][1] = "alert"
           /\ ended.log[j][3] = "Could not connect to GraphRAG system."

C12_LoadingClears ==
    isLoading ~> (~isLoading /\ loaderHidden)

\* C12 witness: an operation has ended on a failure path, after its request
\* failed, and the loading state is cleared.
C12_Witness ==
    /\ ended.op \in {"handleFileSelect", "handleGenerateReview",
                     "handleSectionRefinement", "handleProcessArticle"}
    /\ \E i \in DOMAIN ended.log : ended.log[i][1] = "fail"
    /\ ~isLoading
    /\ loaderHidden

\* The handlers waiting for the response to a request.
RequestPcs == {"status", "documents", "add", "generate", "refine", "query"}
InFlight == {t \in BagToSet(tasks) : t.pc \in RequestPcs}

\* C13 as stated: at most one operation waits for a response at any time,
\* and isLoading is true while one does.
C13_OneOperationInFlight ==
    /\ InFlight # {} => isLoading
    /\ \A t \in InFlight : InFlight = {t} /\ CopiesIn(t, tasks) = 1

\* A question waits for its answer.
AskInFlight == Waiting("handleAskQuestion", "query") # {}

\* C14 as stated: in the chat log every user message is immediately
\* followed by its model message (the last one may still wait for it), two
\* user messages are never adjacent, and a question waits for its answer
\* only while isLoading is true.
C14_ChatAlternates ==
    /\ \A i \in DOMAIN chat :
          chat[i].sender = "user" =>
              IF i < Len(chat) THEN chat[i + 1].sender = "model"
              ELSE AskInFlight
    /\ \A i \in DOMAIN chat :
          chat[i].sender = "model" => (i > 1 /\ chat[i - 1].sender = "user")

\* The handlers a step has moved on: a task the step put into tasks.
Gained(u) == CopiesIn(u, tasks') > CopiesIn(u, tasks)
GainedTasks(op) == {u \in BagToSet(tasks') : u.op = op /\ Gained(u)}
\* A step of the handler op: it moved one of its tasks or ended it.
HandlerStep(op) == GainedTasks(op) # {} \/ ended'.op = op

\* The inputs handleProcessArticle clears.
processInputs == <<articleInput, fileInput, fileNameDisplay, currentFileName>>

\* C15: handleProcessArticle changes the text area, the file input, the
\* file-name display and currentFileName only in the step that follows a
\* successful add_document, and clears them there; the step in which
\* add_document fails shows an alert and leaves them and the document list
\* unchanged.
C15_ClearsOnlyAfterSuccess ==
    [][/\ (HandlerStep("handleProcessArticle") /\ processInputs' # processInputs)
          => /\ \E u \in GainedTasks("handleProcessArticle") :
                   /\ u.pc = "alertSuccess"
                   /\ Sent(u.log)[1] = PostAddDocument
                   /\ \A i \in DOMAIN u.log :
                         u.log[i] # EvFail(AddDocumentReq(u.text, u.name), u.name)
             /\ processInputs' = <<(<<>>), (<<>>), (<<>>), "">>
       /\ \A u \in GainedTasks("handleProcessArticle") :
              u.pc = "alertError"
              => /\ modal' # "none"
                 /\ UNCHANGED <<processInputs, documents, knowledgeList>>
      ]_vars

\* C15 witness: add_document failed, its alert is open and the text is still
\* in the text area.
C15_Witness ==
    \E t \in Waiting("handleProcessArticle", "alertError") :
        /\ modal # "none"
        /\ t.text # <<>>
        /\ Trim(articleInput) = t.text

\* A step that starts the handler op: none of its tasks was moved on.
StartStep(op) ==
    /\ HandlerStep(op)
    /\ \A t \in BagToSet(tasks) :
          t.op = op => CopiesIn(t, tasks') >= CopiesIn(t, tasks)

Blank(text) == \A i \in DOMAIN text : text[i] \in WhiteSpace

\* C16: handleProcessArticle called with an empty or whitespace-only text
\* area shows the 'Please paste text' alert, sends no request and leaves
\* isLoading, the document list, currentFileName and every input unchanged.
C16_BlankTextRejected ==
    [][(StartStep("handleProcessArticle") /\ Blank(articleInput))
        => /\ modal' = "Please paste text into the text area or upload a file."
           /\ ended'.op = "handleProcessArticle"
           /\ Requests(ended'.log) = <<>>
           /\ UNCHANGED <<tasks, isLoading, loaderHidden, disabled, documents,
                          knowledgeList, currentFileName, articleInput,
                          fileInput, fileNameDisplay, questionInput,
                          writingEditor, refinementFeedback>>
      ]_vars

\* C16 witness: Process was clicked on a whitespace-only text and the alert
\* is open.
C16_Witness ==
    /\ ended.op = "handleProcessArticle"
    /\ articleInput # <<>>
    /\ Blank(articleInput)
    /\ modal = "Please paste text into the text area or upload a file."

\* The trace of the handler op in the step that starts it.
StartLog(op) ==
    IF ended'.op = op THEN ended'.log
    ELSE (CHOOSE u \in GainedTasks(op) : TRUE).log

\* The topic handleGenerateReview read from its input.
TopicOf(log) == Tail(log[1])

reviewOutputs ==
    <<draftHistory, reviewDraftOutput, draftVersionControls, reviewProgressLog>>

C18_ButtonsReferToDrafts ==
    /\ draftVersionControls # NoButtons =>
          /\ draftHistory # <<>>
          /\ versionControlsClick(draftHistory, 0) = NlToBr(draftHistory[1])
          /\ showSectionContent(draftHistory) = NlToBr(draftHistory[1])
    /\ (/\ ended.op = "handleGenerateReview"
        /\ \E i \in DOMAIN ended.log : ended.log[i] = EvFail(ReviewReq, ""))
       => (draftHistory = <<>> /\ draftVersionControls = NoButtons)

\* A review generation is running before and after the step.
GenerationRuns ==
    /\ \E t \in BagToSet(tasks) : t.op = "handleGenerateReview"
    /\ \E t \in BagToSet(tasks') : t.op = "handleGenerateReview"

\* C19 as stated: the percentage of the phase indicator stays within 0..100
\* and does not decrease while a generation runs, whatever the number of
\* phases; it is 100 when a generation has succeeded and 0 when it failed.
C19_ProgressWithinBounds ==
    [][/\ phaseIndicator'.pct \in 0..100
       /\ GenerationRuns => phaseIndicator'.pct >= phaseIndicator.pct
       /\ ended'.op = "handleGenerateReview" /\ Requests(ended'.log) # <<>> =>
            IF \E i \in DOMAIN ended'.log : ended'.log[i][1] = "fail"
            THEN phaseIndicator'.pct = 0
            ELSE phaseIndicator'.pct = 100
      ]_vars

\* The task t was moved or ended by the step.
Lost(t) == CopiesIn(t, tasks') < CopiesIn(t, tasks)

\* C20 as stated: the phases of a response are replayed one at a time in
\* the order received, each adding its entry to the progress log; the final
\* review is pushed to draftHistory, displayed and copied into the writing
\* editor only by the step that follows the last phase; isLoading is true
\* as long as a replay is under way.
C20_PhasesReplayedInOrder ==
    [][/\ \A u \in GainedTasks("handleGenerateReview") : u.pc = "phase" =>
            /\ reviewProgressLog' = Append(reviewProgressLog, phaseOf(u.k))
            /\ \E t \in BagToSet(tasks) :
                  /\ Lost(t) /\ t.op = u.op
                  /\ \/ u.k = 1 /\ t.pc = "generate"
                     \/ t.pc = "phase" /\ t.k = u.k - 1 /\ t.phases = u.phases
       /\ draftHistory' # draftHistory /\ draftHistory' # <<>> =>
            /\ \E t \in BagToSet(tasks) :
                  /\ Lost(t) /\ t.op = "handleGenerateReview"
                  /\ t.pc = "phase" => t.k = t.phases
                  /\ ended' = End(t.op, t.log)
            /\ reviewDraftOutput' = NlToBr(draftHistory'[Len(draftHistory')])
            /\ writingEditor' = reviewDraftOutput'
       /\ \A u \in BagToSet(tasks') :
            u.op = "handleGenerateReview" /\ u.pc = "phase" => isLoading'
      ]_vars

\* What a refinement writes.
refineOutputs == <<reviewDraftOutput, writingEditor, refinementFeedback>>

\* C21: handleSectionRefinement called with an empty displayed draft shows
\* the 'No section content to refine.' alert and sends no request; the
\* step of a successful response puts the refined section into the
\* displayed draft and the writing editor and empties the feedback field;
\* the step of a failed one shows the error alert and leaves the three
\* unchanged, and so does the step that closes that alert.
C21_SectionRefinement ==
    [][/\ StartStep("handleSectionRefinement") /\ reviewDraftOutput = <<>> =>
            /\ modal' = "No section content to refine."
            /\ tasks' = tasks
            /\ Requests(ended'.log) = <<>>
            /\ UNCHANGED <<reviewDraftOutput, writingEditor>>
       /\ \A t \in Waiting("handleSectionRefinement", "refine") : Lost(t) =>
            IF ended'.op = "handleSectionRefinement"
            THEN \E refined \in RefinedTexts :
                    /\ reviewDraftOutput' = NlToBr(refined)
                    /\ writingEditor' = NlToBr(refined)
                    /\ refinementFeedback' = <<>>
            ELSE /\ modal' = "Error applying refinement"
                 /\ \E u \in GainedTasks("handleSectionRefinement") :
                       u.pc = "alertError"
                 /\ UNCHANGED refineOutputs
       /\ \A t \in Waiting("handleSectionRefinement", "alertError") :
            Lost(t) => UNCHANGED refineOutputs
      ]_vars

\* A refinement has just succeeded: the refined section is displayed and
\* in the editor, the feedback field is empty.
C21_Witness ==
    /\ ended.op = "handleSectionRefinement"
    /\ Requests(ended.log) # <<>>
    /\ \A i \in DOMAIN ended.log : ended.log[i][1] # "fail"
    /\ \E refined \in RefinedTexts :
          reviewDraftOutput = NlToBr(refined) /\ writingEditor = NlToBr(refined)
    /\ refinementFeedback = <<>>
====
